---- MODULE Spec2Model ----
(***************************************************************************)
(* Model of the document ingestion pipeline of BackendIAeducativa:         *)
(*   app/core/utils.py        chunk_text                                   *)
(*   app/core/security.py     content_security_check                       *)
(*   app/services/document_processor.py  process_upload, text_to_document  *)
(* and of the result cache that wraps expensive operations:                *)
(*   app/core/cache.py        cache_result, invalidate_cache,              *)
(*                            clear_cache_by_pattern                       *)
(* of the gateway to the text generation backend:                          *)
(*   app/services/openai_service.py  generate_completion, generate_quiz    *)
(*   app/api/endpoints/summary.py, quiz.py  create_summary, create_quiz    *)
(* and of the request validation and the document endpoints:               *)
(*   app/shemas/document.py   DocumentRequest                              *)
(*   app/api/endpoints/upload.py  upload_document, get_document,           *)
(*                            delete_document                              *)
(* A text is a sequence of characters (one-character strings); positions   *)
(* are Python's zero-based offsets.                                        *)
(***************************************************************************)
EXTENDS Integers, Sequences, FiniteSets, TLC

VARIABLES
    text,         \* chunk_text: the argument text
    chunk_size,   \* chunk_text: the argument chunk_size
    cpc,          \* chunk_text: position in the function ("idle", "start", "loop", "done")
    current_pos,  \* chunk_text: the local current_pos
    chunks,       \* chunk_text: the local chunks / the returned list
    order,        \* the order in which this process iterates PROHIBITED_CONTENT
    gtext,        \* content_security_check: the text under evaluation
    gcalls,       \* content_security_check: evaluations made of gtext
    gresults,     \* content_security_check: the results those evaluations returned
    entry,        \* ingestion: the function called ("process_upload", "text_to_document")
    request,      \* ingestion: the call's arguments
    ipc,          \* ingestion: position in the function
    doc_type,     \* process_upload: the local doc_type
    extracted_text, \* ingestion: the local extracted_text (text_to_document: text)
    metadata,     \* ingestion: the local metadata
    verdict,      \* ingestion: the locals is_safe, reason
    document_id,  \* ingestion: the local document_id
    bound,        \* ingestion: the function's locals that have been assigned
    steps,        \* ingestion: the pipeline steps run so far, in order
    outcome,      \* ingestion: what the call returned or raised
    REDIS_ENABLED, \* config: whether the cache store is switched on
    redis_client, \* cache: the module's singleton connection (_redis_client)
    store,        \* cache: the entries the Redis server holds, by key
    store_ops,    \* cache_result: the commands the call sent to the store (a set)
    call,         \* cache_result: the wrapped function's behaviour and the call's arguments
    wpc,          \* cache_result: position in wrapper ("Awaiting": in await func(...))
    invocations,  \* cache_result: times the call has invoked the wrapped function
    cache_key,    \* cache_result: the local cache_key
    cached_result, \* cache_result: the local cached_result
    result,       \* cache_result: the local result
    woutcome,     \* cache_result: what the call returned or raised
    prev,         \* cache_result: the call made before this one, if it stored its result
    ncalls,       \* cache_result: calls made so far
    mlog,         \* invalidation: the invalidation calls made, with their arguments, how
                  \* each ended (None while it runs) and what it did to the store
    mpc,          \* clear_cache_by_pattern: position in the function
    pattern,      \* clear_cache_by_pattern: the argument pattern
    cursor,       \* clear_cache_by_pattern: the local cursor
    gop,          \* gateway: the OpenAIService method called
    gpc,          \* gateway: position in the call
    attempts,     \* gateway: the attempts generate_completion made, in order
    waits,        \* gateway: the waits between consecutive attempts, in order
    goutcome,     \* gateway: what the method returned or raised
    http,         \* gateway: the status of the endpoint's response
    payload,      \* request: the model or endpoint and the fields supplied
    rpc,          \* request: position in the validation
    values,       \* request: the fields validated so far (pydantic's values)
    errors,       \* request: the validation errors collected
    routcome,     \* request: accepted, or what it was rejected with
    inflight,     \* documents: the requests received and not yet answered
    responses     \* documents: the requests answered, each with its response

chunkVars == <<text, chunk_size, cpc, current_pos, chunks>>
guardVars == <<order, gtext, gcalls, gresults>>
ingestVars == <<entry, request, ipc, doc_type, extracted_text, metadata, verdict,
                document_id, bound, steps, outcome>>
cacheVars == <<REDIS_ENABLED, redis_client, store, store_ops, call, wpc, invocations,
               cache_key, cached_result, result, woutcome, prev, ncalls, mlog, mpc,
               pattern, cursor>>
gatewayVars == <<gop, gpc, attempts, waits, goutcome, http>>
requestVars == <<payload, rpc, values, errors, routcome>>
registryVars == <<inflight, responses>>
serviceVars == <<cacheVars, gatewayVars, requestVars, registryVars>>
vars == <<chunkVars, guardVars, ingestVars, serviceVars>>

\* What each component leaves alone.
nonChunkVars == <<guardVars, ingestVars, serviceVars>>
nonGuardVars == <<chunkVars, ingestVars, serviceVars>>
nonIngestVars == <<chunkVars, guardVars, serviceVars>>
nonCacheVars == <<chunkVars, guardVars, ingestVars, gatewayVars, requestVars, registryVars>>
nonGatewayVars == <<chunkVars, guardVars, ingestVars, cacheVars, requestVars, registryVars>>
nonRequestVars == <<chunkVars, guardVars, ingestVars, cacheVars, gatewayVars, registryVars>>
nonRegistryVars == <<chunkVars, guardVars, ingestVars, cacheVars, gatewayVars, requestVars>>

\* Python's None
None == [none |-> TRUE]

\* The state of a component no call of which is under way.
ChunkIdle ==
    /\ text = <<>>
    /\ chunk_size = 0
    /\ cpc = "idle"
    /\ current_pos = 0
    /\ chunks = <<>>

GuardIdle ==
    /\ order = <<>>
    /\ gtext = [body |-> <<>>, len |-> 0]
    /\ gcalls = 0
    /\ gresults = {}

IngestIdle ==
    /\ entry = "none"
    /\ request = None
    /\ ipc = "Idle"
    /\ doc_type = "none"
    /\ extracted_text = None
    /\ metadata = None
    /\ verdict = None
    /\ document_id = None
    /\ bound = {}
    /\ steps = <<>>
    /\ outcome = None

\* The cache of a process that has made no call: the store is off
CacheIdle ==
    /\ REDIS_ENABLED = FALSE
    /\ redis_client = None
    /\ store = <<>>
    /\ store_ops = {}
    /\ call = None
    /\ wpc = "Idle"
    /\ invocations = 0
    /\ cache_key = None
    /\ cached_result = None
    /\ result = None
    /\ woutcome = None
    /\ prev = None
    /\ ncalls = 0
    /\ mlog = <<>>
    /\ mpc = "Idle"
    /\ pattern = ""
    /\ cursor = 0

GatewayIdle ==
    /\ gop = "none"
    /\ gpc = "Idle"
    /\ attempts = <<>>
    /\ waits = <<>>
    /\ goutcome = None
    /\ http = 0

RequestIdle ==
    /\ payload = None
    /\ rpc = "Idle"
    /\ values = <<>>
    /\ errors = {}
    /\ routcome = None

RegistryIdle ==
    /\ inflight = {}
    /\ responses = <<>>

ServiceIdle == CacheIdle /\ GatewayIdle /\ RequestIdle /\ RegistryIdle

NonChunkIdle == GuardIdle /\ IngestIdle /\ ServiceIdle
NonGuardIdle == ChunkIdle /\ IngestIdle /\ ServiceIdle
NonCacheIdle ==
    ChunkIdle /\ GuardIdle /\ IngestIdle /\ GatewayIdle /\ RequestIdle /\ RegistryIdle

(***************************************************************************)
(* Bounds of the model.                                                    *)
(***************************************************************************)
MaxTextLen == 5
MaxChunkSize == 3
MaxFragments == 2
MaxCalls == 2

NL == "\n"
Alphabet == {"a", " ", ".", NL}

Min(a, b) == IF a <= b THEN a ELSE b
SetMax(S) == CHOOSE x \in S : \A y \in S : y <= x

RECURSIVE Concat(_)
Concat(ss) == IF ss = <<>> THEN <<>> ELSE Head(ss) \o Concat(Tail(ss))

TextsUpTo(n) == UNION {[1..k -> Alphabet] : k \in 0..n}

(***************************************************************************)
(* Python primitives used by chunk_text.                                   *)
(***************************************************************************)
\* The slice started one character late
SliceDroppingFirst(t, a, b) == SubSeq(t, a + 2, b)

\* An index of a slice or of a search range as Python adjusts it: counted from
\* the end when negative, and clamped to 0..n
PyIndex(i, n) ==
    IF i < 0 THEN (IF i + n < 0 THEN 0 ELSE i + n) ELSE Min(i, n)

\* t[a:b]; empty when the adjusted a is not before the adjusted b
Slice(t, a, b) == SubSeq(t, PyIndex(a, Len(t)) + 1, PyIndex(b, Len(t)))

\* Offsets i with start <= i, i + len(sub) <= end and t[i:i+len(sub)] = sub
Occurrences(t, sub, start, end) ==
    {i \in start..(end - Len(sub)) : \A k \in 1..Len(sub) : t[i + k] = sub[k]}

\* The search run from the left (str.find): the lowest such offset
FindFirst(t, sub, start, end) ==
    LET occ == Occurrences(t, sub, start, end)
    IN IF occ = {} THEN -1 ELSE CHOOSE x \in occ : \A y \in occ : x <= y

\* str.rfind: the highest such offset, -1 when there is none
Rfind(t, sub, start, end) ==
    LET occ == Occurrences(t, sub, PyIndex(start, Len(t)), PyIndex(end, Len(t)))
    IN IF occ = {} THEN -1 ELSE SetMax(occ)

(***************************************************************************)
(* One iteration's cut: lines 66-83 of chunk_text.                         *)
(***************************************************************************)
\* The same with the "> current_pos" tests dropped.
EndPosUnguarded(t, cur, cs) ==
    LET cand == Min(cur + cs, Len(t))
        paragraph_end == Rfind(t, <<NL, NL>>, cur, cand)
        sentence_end == Rfind(t, <<".", " ">>, cur, cand)
        space_end == Rfind(t, <<" ">>, cur, cand)
    IN IF cand < Len(t)
       THEN IF paragraph_end >= 0 THEN paragraph_end + 2
            ELSE IF sentence_end >= 0 THEN sentence_end + 2
            ELSE space_end + 1
       ELSE cand

\* The same with the cut placed one past the natural break.
EndPosPastBreak(t, cur, cs) ==
    LET cand == Min(cur + cs, Len(t))
        paragraph_end == Rfind(t, <<NL, NL>>, cur, cand)
        sentence_end == Rfind(t, <<".", " ">>, cur, cand)
        space_end == Rfind(t, <<" ">>, cur, cand)
    IN IF cand < Len(t)
       THEN IF paragraph_end > cur THEN paragraph_end + 3
            ELSE IF sentence_end > cur THEN sentence_end + 3
            ELSE IF space_end > cur THEN space_end + 2
            ELSE cand
       ELSE cand

EndPos(t, cur, cs) ==
    LET cand == Min(cur + cs, Len(t))
        paragraph_end == Rfind(t, <<NL, NL>>, cur, cand)
        sentence_end == Rfind(t, <<".", " ">>, cur, cand)
        space_end == Rfind(t, <<" ">>, cur, cand)
    IN IF cand < Len(t)
       THEN IF paragraph_end > cur THEN paragraph_end + 2
            ELSE IF sentence_end > cur THEN sentence_end + 2
            ELSE IF space_end > cur THEN space_end + 1
            ELSE cand
       ELSE cand

(***************************************************************************)
(* chunk_text as a state machine.                                          *)
(***************************************************************************)
\* lines 58-62: the short-text return, or the loop's initialisation
ChunkEntry ==
    /\ cpc = "start"
    /\ IF Len(text) <= chunk_size
       THEN /\ chunks' = <<text>>
            /\ cpc' = "done"
            /\ UNCHANGED current_pos
       ELSE /\ chunks' = <<>>
            /\ current_pos' = 0
            /\ cpc' = "loop"
    /\ UNCHANGED <<text, chunk_size>>
    /\ UNCHANGED nonChunkVars

\* lines 64-87: one iteration of the while loop
ChunkIter ==
    /\ cpc = "loop"
    /\ current_pos < Len(text)
    /\ LET end_pos == EndPos(text, current_pos, chunk_size)
       IN /\ chunks' = Append(chunks, Slice(text, current_pos, end_pos))
          /\ current_pos' = end_pos
    /\ UNCHANGED <<text, chunk_size, cpc>>
    /\ UNCHANGED nonChunkVars

\* lines 64, 89: the loop's exit and the return
ChunkReturn ==
    /\ cpc = "loop"
    /\ ~(current_pos < Len(text))
    /\ cpc' = "done"
    /\ UNCHANGED <<text, chunk_size, current_pos, chunks>>
    /\ UNCHANGED nonChunkVars

ChunkNext == ChunkEntry \/ ChunkIter \/ ChunkReturn

\* A call chunk_text(text, chunk_size) with chunk_size >= 1
ChunkInit ==
    /\ text \in TextsUpTo(MaxTextLen)
    /\ chunk_size \in 1..MaxChunkSize
    /\ cpc = "start"
    /\ current_pos = 0
    /\ chunks = <<>>
    /\ NonChunkIdle

ChunkSpec == ChunkInit /\ [][ChunkNext]_vars

\* The loop is run to completion: a call that can take a step takes it.
ChunkFairSpec == ChunkSpec /\ WF_vars(ChunkNext)

(***************************************************************************)
(* Claims about chunk_text.                                                *)
(***************************************************************************)
\* C1 (chunk reconstruction): for every text and every chunk_size >= 1, the
\* chunks appended so far concatenate to the consumed prefix of the text, and
\* the returned chunks concatenate to the whole text, character for character.
C1_ChunkReconstruction ==
    /\ cpc = "loop" => Concat(chunks) = SubSeq(text, 1, current_pos)
    /\ cpc = "done" => Concat(chunks) = text

\* A call that returned several chunks, cut at natural breaks and mid-word.
C1_Witness ==
    /\ cpc = "done"
    /\ Len(chunks) >= 3
    /\ \E i \in 1..Len(chunks) : Len(chunks[i]) < chunk_size
    /\ Concat(chunks) = text

BreakChars == {" ", NL}
IsUnbrokenToken(c) == \A k \in 1..Len(c) : c[k] \notin BreakChars

\* C2 (chunk boundedness): for every text and every chunk_size >= 1, every
\* chunk has at most chunk_size characters; a chunk may be longer only if it
\* is one unbroken token (no space, no newline) longer than chunk_size.
C2_ChunkBounded ==
    \A i \in 1..Len(chunks) :
        \/ Len(chunks[i]) <= chunk_size
        \/ IsUnbrokenToken(chunks[i])

\* A text that is one unbroken token longer than chunk_size, split to the end.
C2_Witness ==
    /\ cpc = "done"
    /\ IsUnbrokenToken(text)
    /\ Len(text) > chunk_size
    /\ \A i \in 1..Len(chunks) : Len(chunks[i]) <= chunk_size

\* C3 (chunker progress): for every text and every chunk_size >= 1, every
\* iteration of the loop strictly increases current_pos, the call returns, the
\* result holds at least one chunk and, for a non-empty text, no empty chunk.
C3_ChunkProgress ==
    /\ [][(cpc = "loop" /\ cpc' = "loop") => current_pos' > current_pos]_vars
    /\ [](cpc = "done" =>
            /\ Len(chunks) >= 1
            /\ (text # <<>> => \A i \in 1..Len(chunks) : chunks[i] # <<>>))
    /\ <>(cpc = "done")

\* A call that returned after several iterations, one of them cut at a break
\* found by rfind.
C3_Witness ==
    /\ cpc = "done"
    /\ Len(chunks) >= 2
    /\ Len(chunks[1]) < chunk_size
    /\ \A i \in 1..Len(chunks) : chunks[i] # <<>>

(***************************************************************************)
(* The chunking scenario: chunk_text on texts of 7,000 characters with the *)
(* configured chunk size and a paragraph break at offset 2,950. The rest   *)
(* of the text is filler, with at most one further break placed in it.     *)
(***************************************************************************)
\* app/config.py: the default of CHUNK_SIZE
CHUNK_SIZE == 3000

ExtraKinds == {"none", "paragraph", "sentence", "space"}
ExtraOffsets == {100, 1500, 2900, 2946, 2952, 2960, 2990, 2997, 3500, 4000,
                 5000, 5951, 6000, 6990}

\* The characters an extra break of the given kind puts at offset off, off + 1
ExtraChar(kind, k) ==
    CASE kind = "paragraph" -> NL
      [] kind = "sentence" -> IF k = 0 THEN "." ELSE " "
      [] kind = "space" -> IF k = 0 THEN " " ELSE "a"
      [] OTHER -> "a"

ScenarioText(kind, off) ==
    [i \in 1..7000 |->
        IF i - 1 \in {2950, 2951} THEN NL
        ELSE IF kind # "none" /\ i - 1 \in {off, off + 1} THEN ExtraChar(kind, i - 1 - off)
        ELSE "a"]

ScenarioInit ==
    /\ \E kind \in ExtraKinds :
         \E off \in (IF kind = "none" THEN {0} ELSE ExtraOffsets) :
            text = ScenarioText(kind, off)
    /\ chunk_size = CHUNK_SIZE
    /\ cpc = "start"
    /\ current_pos = 0
    /\ chunks = <<>>
    /\ NonChunkIdle

ScenarioSpec == ScenarioInit /\ [][ChunkNext]_vars

HasParagraphBreakAt(t, off) == t[off + 1] = NL /\ t[off + 2] = NL
NoBreakCharFrom(t, off) == \A i \in (off + 1)..Len(t) : t[i] \notin BreakChars

\* C4 as stated: for every text of 7,000 characters with a paragraph break at
\* offset 2,950, split with chunk size 3,000, the first chunk is text[0:2952]
\* and three chunks are returned.
C4_AsStated ==
    (cpc = "done" /\ Len(text) = 7000 /\ chunk_size = 3000
        /\ HasParagraphBreakAt(text, 2950))
    => (chunks[1] = SubSeq(text, 1, 2952) /\ Len(chunks) = 3)

\* C4 (chunking scenario), amended: for a text of 7,000 characters with a
\* paragraph break at offset 2,950 and no space or newline from offset 2,952
\* on, split with chunk size 3,000, the first chunk is text[0:2952] and three
\* chunks are returned.
C4_Scenario ==
    (cpc = "done" /\ Len(text) = 7000 /\ chunk_size = 3000
        /\ HasParagraphBreakAt(text, 2950) /\ NoBreakCharFrom(text, 2952))
    => (chunks[1] = SubSeq(text, 1, 2952) /\ Len(chunks) = 3)

\* The scenario's text with an earlier paragraph break in the first window.
C4_Witness ==
    /\ cpc = "done"
    /\ Len(text) = 7000 /\ chunk_size = 3000
    /\ HasParagraphBreakAt(text, 2950) /\ NoBreakCharFrom(text, 2952)
    /\ HasParagraphBreakAt(text, 1500)
    /\ Len(chunks) = 3
    /\ Len(chunks[1]) = 2952

(***************************************************************************)
(* content_security_check (app/core/security.py).                          *)
(*                                                                         *)
(* A text under the guard is [body, len]: the characters of body followed  *)
(* by len - Len(body) copies of the filler character "0", which occurs in  *)
(* no prohibited term and which lower() leaves alone. So len(text) is len, *)
(* and a term occurs in the text exactly when it occurs in the body.       *)
(* An accented letter is one character, written by name.                   *)
(***************************************************************************)
W_violencia == <<"v", "i", "o", "l", "e", "n", "c", "i", "a">>
W_discriminacion == <<"d", "i", "s", "c", "r", "i", "m", "i", "n", "a", "c", "i", "o_acute", "n">>
W_odio == <<"o", "d", "i", "o">>
W_obscenidad == <<"o", "b", "s", "c", "e", "n", "i", "d", "a", "d">>
W_drogas == <<"d", "r", "o", "g", "a", "s">>
W_suicidio == <<"s", "u", "i", "c", "i", "d", "i", "o">>
W_abuso == <<"a", "b", "u", "s", "o">>
W_sexual == <<"s", "e", "x", "u", "a", "l">>
W_terrorismo == <<"t", "e", "r", "r", "o", "r", "i", "s", "m", "o">>
W_extremismo == <<"e", "x", "t", "r", "e", "m", "i", "s", "m", "o">>
W_pornografia == <<"p", "o", "r", "n", "o", "g", "r", "a", "f", "i_acute", "a">>
W_blasfemia == <<"b", "l", "a", "s", "f", "e", "m", "i", "a">>

\* The terms in the order of the set literal
SourceOrder ==
    <<W_violencia, W_discriminacion, W_odio, W_obscenidad, W_drogas, W_suicidio,
      W_abuso, W_sexual, W_terrorismo, W_extremismo, W_pornografia, W_blasfemia>>

PROHIBITED_CONTENT == {SourceOrder[i] : i \in 1..Len(SourceOrder)}

Reversed(s) == [i \in 1..Len(s) |-> s[Len(s) + 1 - i]]
Rotated(s, n) == [i \in 1..Len(s) |-> s[((i - 1 + n) % Len(s)) + 1]]

\* Orders in which a process may iterate the set: a set of str is iterated in
\* the order of the strings' hashes, which are salted per interpreter process.
IterationOrders == {SourceOrder, Reversed(SourceOrder), Rotated(SourceOrder, 5)}

\* str.lower, on the letters that occur
UpperChars ==
    <<"A", "B", "C", "D", "E", "F", "G", "H", "I", "J", "K", "L", "M", "N", "O",
      "P", "Q", "R", "S", "T", "U", "V", "W", "X", "Y", "Z", "O_ACUTE", "I_ACUTE">>
LowerChars ==
    <<"a", "b", "c", "d", "e", "f", "g", "h", "i", "j", "k", "l", "m", "n", "o",
      "p", "q", "r", "s", "t", "u", "v", "w", "x", "y", "z", "o_acute", "i_acute">>

LowerChar(c) ==
    IF \E i \in 1..Len(UpperChars) : UpperChars[i] = c
    THEN LowerChars[CHOOSE i \in 1..Len(UpperChars) : UpperChars[i] = c]
    ELSE c

\* The text compared as it was written
Unlowered(s) == s
Lower(s) == [i \in 1..Len(s) |-> LowerChar(s[i])]

\* word in text_lower
In(word, s) == Occurrences(s, word, 0, Len(s)) # {}

\* security.py: the length limits
MinContentLength == 10
MaxContentLength == 100000

\* lines 27-33, with the lower limit off by one
LengthVerdictOffByOne(n) ==
    IF n < MinContentLength - 1
    THEN [is_safe |-> FALSE, reason |-> [msg |-> "demasiado corto", word |-> <<>>]]
    ELSE IF n > MaxContentLength
    THEN [is_safe |-> FALSE, reason |-> [msg |-> "demasiado largo", word |-> <<>>]]
    ELSE [is_safe |-> TRUE, reason |-> [msg |-> "", word |-> <<>>]]

\* lines 27-33, without the upper limit
LengthVerdictNoUpper(n) ==
    IF n < MinContentLength
    THEN [is_safe |-> FALSE, reason |-> [msg |-> "demasiado corto", word |-> <<>>]]
    ELSE [is_safe |-> TRUE, reason |-> [msg |-> "", word |-> <<>>]]

\* lines 27-33: the length checks and the safe verdict
LengthVerdict(n) ==
    IF n < MinContentLength
    THEN [is_safe |-> FALSE, reason |-> [msg |-> "demasiado corto", word |-> <<>>]]
    ELSE IF n > MaxContentLength
    THEN [is_safe |-> FALSE, reason |-> [msg |-> "demasiado largo", word |-> <<>>]]
    ELSE [is_safe |-> TRUE, reason |-> [msg |-> "", word |-> <<>>]]

\* lines 19-33: the first term, in iteration order ord, found in the lowered
\* text decides; otherwise the length does
content_security_check(t, ord) ==
    LET text_lower == Lower(t.body)
        hits == {i \in 1..Len(ord) : In(ord[i], text_lower)}
    IN IF hits # {}
       THEN [is_safe |-> FALSE,
             reason |-> [msg |-> "terminos inapropiados",
                         word |-> ord[CHOOSE i \in hits : \A j \in hits : i <= j]]]
       ELSE LengthVerdict(t.len)

(***************************************************************************)
(* The texts the guard is evaluated on.                                    *)
(***************************************************************************)
Fragments ==
    {W_odio, <<"O", "D", "I", "O">>, <<"O", "d">>, <<"i", "o">>,
     <<"D", "r", "o", "g", "a", "s">>, W_violencia,
     <<"P", "O", "R", "N", "O", "G", "R", "A", "F", "I_ACUTE", "A">>,
     <<"h", "o", "l", "a">>, <<"a", "b", "u", "s">>, <<" ", "y", " ">>}

RECURSIVE Bodies(_)
Bodies(n) ==
    IF n = 0 THEN {<<>>}
    ELSE Bodies(n - 1) \cup {b \o f : b \in Bodies(n - 1), f \in Fragments}

\* The lengths a text with the given body is tried at: the body alone, and
\* padded to each side of both limits
LengthsFor(b) ==
    {n \in {Len(b), MinContentLength - 1, MinContentLength,
            MaxContentLength, MaxContentLength + 1} : n >= Len(b)}

GuardTexts(n) ==
    UNION {{[body |-> b, len |-> l] : l \in LengthsFor(b)} : b \in Bodies(n)}

(***************************************************************************)
(* Evaluations of content_security_check on one text, in a process and in  *)
(* the processes that follow it.                                           *)
(***************************************************************************)
\* One evaluation; its result is recorded
GuardCall ==
    /\ gcalls < MaxCalls
    /\ gcalls' = gcalls + 1
    /\ gresults' = gresults \cup {content_security_check(gtext, order)}
    /\ UNCHANGED <<order, gtext>>
    /\ UNCHANGED nonGuardVars

\* Another interpreter process (a restart, another worker) imports the module
\* and builds the set anew
ProcessStart ==
    /\ order' \in IterationOrders \ {order}
    /\ UNCHANGED <<gtext, gcalls, gresults>>
    /\ UNCHANGED nonGuardVars

GuardNext == GuardCall \/ ProcessStart

GuardInit ==
    /\ order \in IterationOrders
    /\ gtext \in GuardTexts(MaxFragments)
    /\ gcalls = 0
    /\ gresults = {}
    /\ NonGuardIdle

GuardSpec == GuardInit /\ [][GuardNext]_vars

(***************************************************************************)
(* Claims about content_security_check.                                    *)
(***************************************************************************)
\* The term w occurs in the body b as a case-insensitive substring.
OccursIgnoringCase(w, b) ==
    \E i \in 0..(Len(b) - Len(w)) :
        \A k \in 1..Len(w) : LowerChar(b[i + k]) = LowerChar(w[k])

HasProhibitedTerm(t) == \E w \in PROHIBITED_CONTENT : OccursIgnoringCase(w, t.body)

TooShort == [msg |-> "demasiado corto", word |-> <<>>]
TooLong == [msg |-> "demasiado largo", word |-> <<>>]
NoReason == [msg |-> "", word |-> <<>>]

\* C5 (ContentGuard verdict): content_security_check returns is_safe = true
\* exactly when 10 <= len(text) <= 100,000 and no prohibited term occurs in
\* the text as a case-insensitive substring; a safe verdict has the empty
\* reason.
C5_GuardVerdict ==
    \A r \in gresults :
        /\ r.is_safe <=> (/\ 10 <= gtext.len
                          /\ gtext.len <= 100000
                          /\ ~HasProhibitedTerm(gtext))
        /\ r.is_safe => r.reason = NoReason

\* A text of exactly 100,000 characters with upper-case letters and part of a
\* term in it, found safe.
C5_Witness ==
    /\ gtext.len = 100000
    /\ gtext.body = <<"O", "d", "a", "b", "u", "s">>
    /\ \E r \in gresults : r.is_safe /\ r.reason = NoReason

\* C6 as stated: every text shorter than 10 characters is rejected as too
\* short, and every text longer than 100,000 characters as too long.
C6_AsStated ==
    \A r \in gresults :
        /\ gtext.len < 10 => (~r.is_safe /\ r.reason = TooShort)
        /\ gtext.len > 100000 => (~r.is_safe /\ r.reason = TooLong)

\* C6 (ContentGuard length reasons), amended: every text shorter than 10
\* characters is rejected, and as too short if it holds no prohibited term;
\* every text longer than 100,000 characters is rejected, and as too long if
\* it holds no prohibited term.
C6_LengthReasons ==
    \A r \in gresults :
        /\ gtext.len < 10 =>
              (~r.is_safe /\ (~HasProhibitedTerm(gtext) => r.reason = TooShort))
        /\ gtext.len > 100000 =>
              (~r.is_safe /\ (~HasProhibitedTerm(gtext) => r.reason = TooLong))

\* A text of exactly 9 characters with no prohibited term, rejected as too
\* short.
C6_Witness ==
    /\ gtext.len = 9
    /\ ~HasProhibitedTerm(gtext)
    /\ gresults = {[is_safe |-> FALSE, reason |-> TooShort]}

\* C7 (idempotent safety check): all evaluations of content_security_check on
\* the same text return the same verdict and the same reason.
C7_SameVerdictAndReason ==
    \A r1 \in gresults : \A r2 \in gresults : r1 = r2

(***************************************************************************)
(* Ingestion: DocumentProcessor.process_upload and text_to_document        *)
(* (app/services/document_processor.py), one call at a time.               *)
(*                                                                         *)
(* The bytes of an upload are the UTF-8 encoding of a text, a PDF          *)
(* container (with binary stream data, so not valid UTF-8) from which      *)
(* PyPDF2 extracts a text, or bytes that are neither.                      *)
(***************************************************************************)
Exts == {".pdf", ".PDF", ".txt", ".docx", ".md", ".csv", ""}

\* line 52: os.path.splitext(file.filename)[1].lower()
LowerExt(e) == IF e = ".PDF" THEN ".pdf" ELSE e

\* lines 115-123: _get_document_type
GetDocumentType(file_extension) ==
    CASE file_extension = ".pdf" -> "pdf"
      [] file_extension = ".txt" -> "text"
      [] file_extension = ".docx" -> "docx"
      [] file_extension = ".md" -> "markdown"
      [] OTHER -> "text"

Accented == {"o_acute", "O_ACUTE", "i_acute", "I_ACUTE"}

\* len(text.encode('utf-8')): an accented letter takes two bytes
Utf8Len(t) == t.len + Cardinality({i \in 1..Len(t.body) : t.body[i] \in Accented})

\* The texts ingested
IngestTexts == GuardTexts(MaxFragments - 1)

Utf8Content(t) == [kind |-> "utf8", text |-> t, size |-> Utf8Len(t)]

\* line 173: the length under which a page's text counts as little
ShortPageLimit == 100

\* A page of a PDF, as _process_pdf sees it: whether extract_text gives fewer
\* than ShortPageLimit characters, and its /Resources entry. The entry is
\* inheritable, so a page dictionary may lack it ("absent"); when present it
\* holds an /XObject dictionary or none
PageKinds ==
    [short : BOOLEAN, resources : {"absent", "no_xobject", "xobject"}]

\* The pages of the PDFs ingested: one or two pages
PageLayouts == [1..1 -> PageKinds] \cup [1..2 -> PageKinds]

\* lines 165-187: the text returned joins the pages' texts, so a text
\* under the limit comes from short pages only, and short pages only give at
\* most ShortPageLimit - 1 characters each and two newlines between them
LayoutOf(t, pages) ==
    /\ (\E i \in 1..Len(pages) : ~pages[i].short) => t.len >= ShortPageLimit
    /\ (\A i \in 1..Len(pages) : pages[i].short) =>
           t.len <= (ShortPageLimit + 1) * Len(pages) - 2

PdfContent(t, pages) ==
    [kind |-> "pdf", text |-> t, size |-> Utf8Len(t) + 1024, pages |-> pages]
BinaryContent == [kind |-> "binary", size |-> 2]

Contents ==
    {Utf8Content(t) : t \in IngestTexts}
    \cup UNION {{PdfContent(t, pages) : pages \in {l \in PageLayouts : LayoutOf(t, l)}} :
                   t \in IngestTexts}
    \cup {BinaryContent}

UploadRequests ==
    {[filename |-> <<"apuntes", e>>, content_type |-> "application/octet-stream",
      content |-> c, perform_ocr |-> TRUE] : e \in Exts, c \in Contents}

TextRequests == {[text |-> t, title |-> ti] : t \in IngestTexts, ti \in {None, [name |-> "Tema 1"]}}

\* lines 125-134: _create_basic_metadata
CreateBasicMetadata(filename, file_size, content_type) ==
    [filename |-> filename, file_size |-> file_size, content_type |-> content_type,
     page_count |-> None, has_images |-> FALSE, language |-> None]

\* line 173: the pages on which the image test is made
Inspected(content, perform_ocr) ==
    {i \in 1..Len(content.pages) : perform_ocr /\ content.pages[i].short}

\* line 175: page['/Resources'] on a page dictionary without the entry
ResourcesKeyError(content, perform_ocr) ==
    \E i \in Inspected(content, perform_ocr) : content.pages[i].resources = "absent"

\* lines 166, 173-178, 185: has_images
HasImages(content, perform_ocr) ==
    \E i \in Inspected(content, perform_ocr) : content.pages[i].resources = "xobject"

\* lines 136-187: _process_pdf, on a valid container
ProcessPdfMetadata(content, perform_ocr) ==
    [filename |-> <<"document", ".pdf">>, file_size |-> content.size,
     content_type |-> "application/pdf", page_count |-> Len(content.pages),
     has_images |-> HasImages(content, perform_ocr), language |-> None]

HTTPException(status_code, detail) ==
    [kind |-> "HTTPException", status_code |-> status_code, detail |-> detail]

\* An exception no handler of the function catches
Unhandled(class) == [kind |-> class]

\* The names the function's body assigns, which are therefore its locals: the
\* for statements on lines 86 and 228 assign i and chunk_text
LocalNames(fn) ==
    IF fn = "process_upload"
    THEN {"content", "file_ext", "doc_type", "extracted_text", "metadata", "is_safe",
          "reason", "document_id", "text_chunks", "chunks", "i", "chunk_text",
          "entities", "keywords", "language", "processed_doc"}
    ELSE {"is_safe", "reason", "document_id", "filename", "metadata", "text_chunks",
          "chunks", "i", "chunk_text", "entities", "keywords", "language"}

StepOrder ==
    <<"type_detection", "text_extraction", "content_guard", "id_generation",
      "chunking", "annotation">>

\* lines 49-53: read the upload and detect its type
IngestDetectType ==
    /\ entry = "process_upload"
    /\ ipc = "Received"
    /\ doc_type' = GetDocumentType(LowerExt(request.filename[2]))
    /\ bound' = bound \cup {"content", "file_ext", "doc_type"}
    /\ steps' = Append(steps, "type_detection")
    /\ ipc' = "TypeDetected"
    /\ UNCHANGED <<entry, request, extracted_text, metadata, verdict, document_id, outcome>>
    /\ UNCHANGED nonIngestVars

\* The extraction succeeded: extracted_text and metadata are assigned
Extracted(t, md) ==
    /\ extracted_text' = t
    /\ metadata' = md
    /\ bound' = bound \cup {"extracted_text", "metadata"}
    /\ steps' = Append(steps, "text_extraction")
    /\ ipc' = "TextExtracted"
    /\ UNCHANGED outcome

\* The call ends with the exception e
Raise(e) ==
    /\ outcome' = e
    /\ ipc' = "Raised"

\* lines 56-70: extract the text according to the type
IngestExtract ==
    /\ entry = "process_upload"
    /\ ipc = "TypeDetected"
    /\ LET content == request.content
           basic == CreateBasicMetadata(request.filename, content.size, request.content_type)
       IN IF doc_type = "pdf"
          THEN IF content.kind # "pdf"
               THEN /\ Raise(HTTPException(400, <<"Error procesando PDF", "PdfReadError">>))
                    /\ UNCHANGED <<extracted_text, metadata, bound, steps>>
               ELSE IF ResourcesKeyError(content, request.perform_ocr)
               THEN /\ Raise(HTTPException(400, <<"Error procesando PDF", "KeyError">>))
                    /\ UNCHANGED <<extracted_text, metadata, bound, steps>>
               ELSE Extracted(content.text, ProcessPdfMetadata(content, request.perform_ocr))
          ELSE IF doc_type = "text"
          THEN IF content.kind = "utf8"
               THEN Extracted(content.text, basic)
               ELSE /\ Raise(Unhandled("UnicodeDecodeError"))
                    /\ UNCHANGED <<extracted_text, metadata, bound, steps>>
          ELSE IF content.kind = "utf8"
               THEN Extracted(content.text, basic)
               ELSE /\ Raise(HTTPException(415, <<"Formato de archivo no soportado o corrupto">>))
                    /\ UNCHANGED <<extracted_text, metadata, bound, steps>>
    /\ UNCHANGED <<entry, request, doc_type, verdict, document_id>>
    /\ UNCHANGED nonIngestVars

\* The guard's position in each function
AtGuard ==
    \/ entry = "process_upload" /\ ipc = "TextExtracted"
    \/ entry = "text_to_document" /\ ipc = "Received"

\* lines 73-78 and 207-212, with the verdict not acted on
IngestGuardVerdictIgnored ==
    /\ AtGuard
    /\ verdict' = content_security_check(extracted_text, order)
    /\ bound' = bound \cup {"is_safe", "reason"}
    /\ steps' = Append(steps, "content_guard")
    /\ ipc' = "SafetyChecked"
    /\ UNCHANGED outcome
    /\ UNCHANGED <<entry, request, doc_type, extracted_text, metadata, document_id>>
    /\ UNCHANGED nonIngestVars

\* lines 73-78 and 207-212: content_security_check, and the rejection
IngestGuard ==
    /\ AtGuard
    /\ LET v == content_security_check(extracted_text, order)
       IN /\ verdict' = v
          /\ IF v.is_safe
             THEN /\ ipc' = "SafetyChecked"
                  /\ UNCHANGED outcome
             ELSE Raise(HTTPException(400, <<"Contenido inapropiado", v.reason>>))
    /\ bound' = bound \cup {"is_safe", "reason"}
    /\ steps' = Append(steps, "content_guard")
    /\ UNCHANGED <<entry, request, doc_type, extracted_text, metadata, document_id>>
    /\ UNCHANGED nonIngestVars

\* line 81, and lines 215-223: generate_file_id (a fresh uuid4); text_to_document
\* builds its metadata here
IngestGenerateId ==
    /\ ipc = "SafetyChecked"
    /\ document_id' = [uuid |-> 1]
    /\ IF entry = "text_to_document"
       THEN /\ metadata' =
                 [filename |-> <<IF request.title # None THEN request.title.name ELSE "document", ".txt">>,
                  file_size |-> Utf8Len(request.text), content_type |-> "text/plain",
                  page_count |-> None, has_images |-> FALSE, language |-> None]
            /\ bound' = bound \cup {"document_id", "filename", "metadata"}
       ELSE /\ UNCHANGED metadata
            /\ bound' = bound \cup {"document_id"}
    /\ steps' = Append(steps, "id_generation")
    /\ ipc' = "IdGenerated"
    /\ UNCHANGED <<entry, request, doc_type, extracted_text, verdict, outcome>>
    /\ UNCHANGED nonIngestVars

\* lines 84 and 226: text_chunks = chunk_text(...). The name chunk_text is a
\* local of the function (the for target two lines below), not yet assigned, so
\* loading it raises UnboundLocalError before any call is made. The rest of
\* the function (lines 85-113, 227-253) is never reached.
IngestChunk ==
    /\ ipc = "IdGenerated"
    /\ "chunk_text" \in LocalNames(entry) \ bound
    /\ Raise(Unhandled("UnboundLocalError"))
    /\ UNCHANGED <<entry, request, doc_type, extracted_text, metadata, verdict,
                   document_id, bound, steps>>
    /\ UNCHANGED nonIngestVars

IngestNext ==
    \/ IngestDetectType
    \/ IngestExtract
    \/ IngestGuard
    \/ IngestGenerateId
    \/ IngestChunk

\* A call of process_upload(file) or of text_to_document(text, title)
IngestInit ==
    /\ \/ /\ entry = "process_upload"
          /\ request \in UploadRequests
          /\ extracted_text = None
       \/ /\ entry = "text_to_document"
          /\ request \in TextRequests
          /\ extracted_text = request.text
    /\ ipc = "Received"
    /\ doc_type = "none"
    /\ metadata = None
    /\ verdict = None
    /\ document_id = None
    /\ bound = {}
    /\ steps = <<>>
    /\ outcome = None
    /\ order \in IterationOrders
    /\ gtext = [body |-> <<>>, len |-> 0]
    /\ gcalls = 0
    /\ gresults = {}
    /\ ChunkIdle
    /\ ServiceIdle

IngestSpec == IngestInit /\ [][IngestNext]_vars

(***************************************************************************)
(* Claims about ingestion.                                                 *)
(***************************************************************************)
Rank(step) == CHOOSE i \in 1..Len(StepOrder) : StepOrder[i] = step
Ran(step) == \E i \in 1..Len(steps) : steps[i] = step
Terminated == ipc \in {"Returned", "Raised"}
Rejection(reason) == HTTPException(400, <<"Contenido inapropiado", reason>>)

\* C8 (ingestion gating order): in every run of process_upload and of
\* text_to_document the steps run in the order type detection, text
\* extraction, ContentGuard, identifier, chunking, annotation; an identifier is
\* generated, and chunking or annotation run, only after ContentGuard found
\* the extracted text safe; and when it finds it unsafe the run has ended
\* rejected with that reason, with no identifier, no chunking, no annotation
\* and no document.
C8_GatingOrder ==
    /\ \A i \in 1..Len(steps) : \A j \in 1..Len(steps) :
          i < j => Rank(steps[i]) < Rank(steps[j])
    /\ (entry = "process_upload" /\ Ran("content_guard")) =>
          SubSeq(steps, 1, 3) = <<"type_detection", "text_extraction", "content_guard">>
    /\ (document_id # None \/ Ran("id_generation") \/ Ran("chunking") \/ Ran("annotation")) =>
          /\ Ran("content_guard")
          /\ verdict = content_security_check(extracted_text, order)
          /\ verdict.is_safe
    /\ (verdict # None /\ ~verdict.is_safe) =>
          /\ verdict = content_security_check(extracted_text, order)
          /\ ipc = "Raised"
          /\ outcome = Rejection(verdict.reason)
          /\ document_id = None
          /\ ~Ran("id_generation") /\ ~Ran("chunking") /\ ~Ran("annotation")

\* An upload whose extracted text holds a prohibited term, rejected after
\* type detection, extraction and the guard.
C8_Witness ==
    /\ entry = "process_upload"
    /\ ipc = "Raised"
    /\ steps = <<"type_detection", "text_extraction", "content_guard">>
    /\ verdict # None
    /\ ~verdict.is_safe
    /\ verdict.reason.msg = "terminos inapropiados"
    /\ outcome = Rejection(verdict.reason)
    /\ document_id = None

\* C9 (ingestion reaches Ready): a call whose text was extracted and passed
\* ContentGuard runs chunking and annotation and ends Ready, returning a
\* Document.
C9_ReachesReady ==
    (Terminated /\ verdict # None /\ verdict.is_safe) =>
        /\ ipc = "Returned"
        /\ outcome.kind = "document"
        /\ Ran("chunking") /\ Ran("annotation")

\* C10 (text decode failure): an upload of detected type text, docx or
\* markdown whose bytes are not valid UTF-8 ends with the HTTP 415
\* "unsupported or corrupt format" error.
C10_DecodeFailureSignal ==
    (/\ entry = "process_upload"
     /\ doc_type \in {"text", "docx", "markdown"}
     /\ request.content.kind # "utf8"
     /\ Terminated) =>
        outcome = HTTPException(415, <<"Formato de archivo no soportado o corrupto">>)

\* The machine-readable kind of an error: its class and, for an HTTPException,
\* its status code.
ErrorKind(e) ==
    [class |-> e.kind,
     status |-> IF e.kind = "HTTPException" THEN e.status_code ELSE 0]

UnsupportedFormatKind == ErrorKind(HTTPException(415, <<>>))

\* C11 (invalid PDF): an upload detected as pdf whose bytes are not a PDF
\* container ends Failed with an error that names PDF processing, whose kind is
\* the unsupported-format kind and differs from the kind of a ContentGuard
\* rejection, and no document is produced.
C11_InvalidPdfKind ==
    (/\ entry = "process_upload"
     /\ doc_type = "pdf"
     /\ request.content.kind # "pdf"
     /\ Terminated) =>
        /\ ipc = "Raised"
        /\ outcome.kind = "HTTPException"
        /\ outcome.detail[1] = "Error procesando PDF"
        /\ ErrorKind(outcome) = UnsupportedFormatKind
        /\ ErrorKind(outcome) # ErrorKind(Rejection(NoReason))
        /\ document_id = None

(***************************************************************************)
(* The result cache: app/core/cache.py.                                    *)
(* A Python value is a record tagged with its type; the text json.dumps    *)
(* makes of a value is the record [json |-> v] of the JSON value v it      *)
(* denotes, so that a tuple comes back from the cache as a list.  A cache  *)
(* key is the MD5 digest of a string, modelled by that string's parts.     *)
(***************************************************************************)
MaxCacheCalls == 2
MaxInvalidations == 1
ScanCount == 1        \* keys a SCAN step visits (the code's hint is count=100)

CACHE_TTL == 86400

\* What a wrapped function can return: a string, a tuple, an object json
\* cannot serialize
Values == {[str |-> "resumen"], [tuple |-> <<"a">>], [object |-> "QuizResponse"]}

\* What awaiting the wrapped function does in one call
Returns(v) == [returned |-> v]
Raises(e) == [raised |-> e]
FuncBehaviours == {Returns(v) : v \in Values} \cup {Raises("ValueError")}

\* json.dumps(value) and json.loads(text)
Serializable(v) == "object" \notin DOMAIN v
ToJson(v) == IF "tuple" \in DOMAIN v THEN [list |-> v.tuple] ELSE v
Dumps(v) == [json |-> ToJson(v)]
Loadable(s) == "json" \in DOMAIN s
Loads(s) == s.json

\* A text a store entry can hold that json.dumps did not write and json.loads
\* rejects
Garbage == [garbage |-> TRUE]

\* "if cached_result": get returned a text (here never the empty one)
Truthy(s) == s # None

\* Keyword arguments as written at the call: name/value pairs in order
KwargsWritten ==
    {<< <<"length", "short">>, <<"model", "gpt">> >>,
     << <<"model", "gpt">>, <<"length", "short">> >>,
     << <<"length", "long">>, <<"model", "gpt">> >>}

\* The names in the order sort_keys puts them
KeywordOrder == <<"length", "model">>

\* json.dumps(kwargs) without sort_keys: the pairs in the order written
KeysAsWritten(kwargs) == kwargs

\* json.dumps(kwargs, sort_keys=True): the pairs ordered by name
SortKeys(kwargs) ==
    LET present == SelectSeq(KeywordOrder,
                             LAMBDA n : \E i \in DOMAIN kwargs : kwargs[i][1] = n)
    IN [j \in DOMAIN present |->
           kwargs[CHOOSE i \in DOMAIN kwargs : kwargs[i][1] = present[j]]]

\* lines 39-47
generate_cache_key(prefix, args, kwargs) ==
    [md5 |-> <<prefix, [str |-> args], [json |-> SortKeys(kwargs)]>>]

Prefixes == {"summary"}
ArgTuples == {<<"texto">>}

\* The calls of a function decorated with cache_result(prefix)
WrapperCalls ==
    {[prefix |-> p, args |-> a, kwargs |-> kw, func |-> f] :
        p \in Prefixes, a \in ArgTuples, kw \in KwargsWritten, f \in FuncBehaviours}

AllKeys == {generate_cache_key(c.prefix, c.args, c.kwargs) : c \in WrapperCalls}

\* The order in which SCAN walks the key space
KeySlots ==
    CHOOSE s \in [1..Cardinality(AllKeys) -> AllKeys] :
        \A i, j \in DOMAIN s : i # j => s[i] # s[j]

\* Glob patterns; a key is a hexadecimal digest, which "*" matches and a
\* pattern beginning with a prefix and a colon does not; a pattern without
\* wildcard that spells a digest matches that key
Patterns == {[glob |-> "*"], [glob |-> "summary:*"], [literal |-> KeySlots[1]]}
Matches(pat, key) ==
    IF "glob" \in DOMAIN pat THEN pat.glob = "*" ELSE pat.literal = key

\* The store's commands
Get(st, key) == IF key \in DOMAIN st THEN st[key].value ELSE None
Setex(st, key, ttl, value) == (key :> [value |-> value, ttl |-> ttl]) @@ st
Delete(st, keys) == [k \in DOMAIN st \ keys |-> st[k]]

\* lines 20-37: the singleton connection, made on first use; making it opens
\* no socket
GetRedisConnection ==
    IF ~REDIS_ENABLED THEN None
    ELSE IF redis_client = None THEN [redis |-> "client"] ELSE redis_client

\* A command that did not reach the store or that the store refused
StoreError == Raises("redis.ConnectionError")
invalidationVars == <<mlog, mpc, pattern, cursor>>

\* The call ends returning or raising o
Finish(o) ==
    /\ woutcome' = o
    /\ wpc' = IF "returned" \in DOMAIN o THEN "Returned" ELSE "Raised"

\* A command the call sent to the store
Sent(command) == store_ops' = store_ops \cup {command}

\* The call's setex reached the store
Stored == \E c \in store_ops : c.op = "setex" /\ c.ok

BetweenCalls == wpc \in {"Idle", "Returned", "Raised"}

\* The log of the invalidation calls is kept in full for the call that is
\* running and for the latest one, until the next wrapped call begins; of the
\* others it keeps the function, how it ended and whether it sent the store a
\* command
Summary(log) ==
    [i \in DOMAIN log |->
        IF log[i].outcome = None THEN log[i]
        ELSE [op |-> log[i].op, outcome |-> log[i].outcome, sent |-> log[i].sent]]

\* A call of the decorated function
CacheCall ==
    /\ BetweenCalls
    /\ ncalls < MaxCacheCalls
    /\ call' \in WrapperCalls
    /\ prev' = IF Stored
               THEN [prefix |-> call.prefix, args |-> call.args, kwargs |-> call.kwargs,
                     cache_key |-> cache_key, result |-> result]
               ELSE None
    /\ wpc' = "Called"
    /\ ncalls' = ncalls + 1
    /\ invocations' = 0
    /\ cache_key' = None
    /\ cached_result' = None
    /\ result' = None
    /\ woutcome' = None
    /\ store_ops' = {}
    /\ mlog' = Summary(mlog)
    /\ UNCHANGED <<REDIS_ENABLED, redis_client, store, mpc, pattern, cursor>>
    /\ UNCHANGED nonCacheVars

\* The wrapper consulting the store although the cache is off
WrapperDisabledLooksUp ==
    /\ wpc = "Called"
    /\ ~REDIS_ENABLED
    /\ invocations' = invocations + 1
    /\ Sent([op |-> "get", key |-> None, ok |-> TRUE])
    /\ Finish(call.func)
    /\ UNCHANGED <<REDIS_ENABLED, redis_client, store, call, cache_key, cached_result,
                   result, prev, ncalls, invalidationVars>>
    /\ UNCHANGED nonCacheVars

\* lines 55-56: the cache is off, the wrapper awaits the function
WrapperDisabled ==
    /\ wpc = "Called"
    /\ ~REDIS_ENABLED
    /\ invocations' = invocations + 1
    /\ Finish(call.func)
    /\ UNCHANGED <<REDIS_ENABLED, redis_client, store, store_ops, call, cache_key,
                   cached_result, result, prev, ncalls, invalidationVars>>
    /\ UNCHANGED nonCacheVars

\* lines 59-64: the connection and the key
WrapperKey ==
    /\ wpc = "Called"
    /\ REDIS_ENABLED
    /\ redis_client' = GetRedisConnection
    /\ IF redis_client' = None
       THEN /\ invocations' = invocations + 1
            /\ Finish(call.func)
            /\ UNCHANGED cache_key
       ELSE /\ cache_key' = generate_cache_key(call.prefix, call.args, call.kwargs)
            /\ wpc' = "KeyMade"
            /\ UNCHANGED <<invocations, woutcome>>
    /\ UNCHANGED <<REDIS_ENABLED, store, store_ops, call, cached_result, result, prev,
                   ncalls, invalidationVars>>
    /\ UNCHANGED nonCacheVars

\* lines 67-73: the lookup; get is called outside any try, loads inside one
WrapperLookup ==
    /\ wpc = "KeyMade"
    /\ \E ok \in BOOLEAN :
         /\ Sent([op |-> "get", key |-> cache_key, ok |-> ok])
         /\ IF ~ok
            THEN Finish(StoreError) /\ UNCHANGED cached_result
            ELSE /\ cached_result' = Get(store, cache_key)
                 /\ IF Truthy(cached_result') /\ Loadable(cached_result')
                    THEN Finish(Returns(Loads(cached_result')))
                    ELSE wpc' = "Miss" /\ UNCHANGED woutcome
    /\ UNCHANGED <<REDIS_ENABLED, redis_client, store, call, invocations, cache_key,
                   result, prev, ncalls, invalidationVars>>
    /\ UNCHANGED nonCacheVars

\* line 76: the wrapper invokes the function and awaits it; the event loop
\* runs other coroutines meanwhile
WrapperCompute ==
    /\ wpc = "Miss"
    /\ invocations' = invocations + 1
    /\ wpc' = "Awaiting"
    /\ UNCHANGED <<REDIS_ENABLED, redis_client, store, store_ops, call, cache_key,
                   cached_result, result, woutcome, prev, ncalls, invalidationVars>>
    /\ UNCHANGED nonCacheVars

\* The function's exception turned into a None result
WrapperResumeSwallows ==
    /\ wpc = "Awaiting"
    /\ result' = IF "raised" \in DOMAIN call.func THEN None ELSE call.func.returned
    /\ wpc' = "Computed"
    /\ UNCHANGED <<REDIS_ENABLED, redis_client, store, store_ops, call, invocations,
                   cache_key, cached_result, woutcome, prev, ncalls, invalidationVars>>
    /\ UNCHANGED nonCacheVars

\* line 76: the function ends; its exception is the wrapper's, its value is
\* bound to result
WrapperResume ==
    /\ wpc = "Awaiting"
    /\ IF "raised" \in DOMAIN call.func
       THEN Finish(call.func) /\ UNCHANGED result
       ELSE /\ result' = call.func.returned
            /\ wpc' = "Computed"
            /\ UNCHANGED woutcome
    /\ UNCHANGED <<REDIS_ENABLED, redis_client, store, store_ops, call, invocations,
                   cache_key, cached_result, prev, ncalls, invalidationVars>>
    /\ UNCHANGED nonCacheVars

\* The write with a time-to-live of 0
WrapperStoreNoTtl ==
    /\ wpc = "Computed"
    /\ IF Serializable(result)
       THEN \E ok \in BOOLEAN :
              /\ Sent([op |-> "setex", key |-> cache_key, ttl |-> 0,
                       value |-> Dumps(result), ok |-> ok])
              /\ store' = IF ok THEN Setex(store, cache_key, 0, Dumps(result))
                          ELSE store
       ELSE UNCHANGED <<store, store_ops>>
    /\ Finish(Returns(result))
    /\ UNCHANGED <<REDIS_ENABLED, redis_client, call, invocations, cache_key,
                   cached_result, result, prev, ncalls, invalidationVars>>
    /\ UNCHANGED nonCacheVars

\* lines 77-87: the result is serialized and written with the time-to-live;
\* an exception of dumps or of setex is caught, and the result returned
WrapperStore ==
    /\ wpc = "Computed"
    /\ IF Serializable(result)
       THEN \E ok \in BOOLEAN :
              /\ Sent([op |-> "setex", key |-> cache_key, ttl |-> CACHE_TTL,
                       value |-> Dumps(result), ok |-> ok])
              /\ store' = IF ok THEN Setex(store, cache_key, CACHE_TTL, Dumps(result))
                          ELSE store
       ELSE UNCHANGED <<store, store_ops>>
    /\ Finish(Returns(result))
    /\ UNCHANGED <<REDIS_ENABLED, redis_client, call, invocations, cache_key,
                   cached_result, result, prev, ncalls, invalidationVars>>
    /\ UNCHANGED nonCacheVars

wrapperVars == <<call, wpc, invocations, cache_key, cached_result, result, woutcome,
                 prev, ncalls>>

\* The server drops an entry whose time-to-live has run out (taken between the
\* process's calls: a call sees a change made during it as one made before
\* its get or overwrites it with its setex)
StoreExpire ==
    /\ BetweenCalls
    /\ \E k \in DOMAIN store : store' = Delete(store, {k})
    /\ UNCHANGED <<REDIS_ENABLED, redis_client, store_ops, wrapperVars, invalidationVars>>
    /\ UNCHANGED nonCacheVars

\* Another client of the server leaves under a key a text json.dumps did not
\* write
StoreForeign ==
    /\ BetweenCalls
    /\ \E k \in AllKeys :
         /\ Get(store, k) # Garbage
         /\ store' = Setex(store, k, CACHE_TTL, Garbage)
    /\ UNCHANGED <<REDIS_ENABLED, redis_client, store_ops, wrapperVars, invalidationVars>>
    /\ UNCHANGED nonCacheVars

\* The wrapped call that is awaiting its function, 0 when none is
InFlight == IF wpc = "Awaiting" THEN ncalls ELSE 0

\* An invalidate_cache call ended returning or raising o, having sent the
\* store a command or none
Ended(target, o, sent) ==
    mlog' = Append(Summary(mlog),
                   [op |-> "invalidate_cache", target |-> target, outcome |-> o,
                    sent |-> sent, inflight |-> InFlight])

\* A clear_cache_by_pattern call: the keys that matched when it began, and
\* those it has deleted or found gone so far
Scan(pat, o, matching) ==
    [op |-> "clear_cache_by_pattern", target |-> pat, outcome |-> o, sent |-> FALSE,
     matching |-> matching, deleted |-> {}, missed |-> {}]

\* Invalidation calls begun
Invalidations == Len(mlog)

\* lines 91-101
InvalidateCache ==
    /\ Invalidations < MaxInvalidations
    /\ \E p \in Prefixes : \E a \in ArgTuples : \E kw \in KwargsWritten :
         LET target == [prefix |-> p, args |-> a, kwargs |-> kw]
         IN IF ~REDIS_ENABLED
            THEN /\ Ended(target, Returns(None), FALSE)
                 /\ UNCHANGED <<redis_client, store>>
            ELSE /\ redis_client' = GetRedisConnection
                 /\ \E ok \in BOOLEAN :
                      /\ store' = IF ok THEN Delete(store, {generate_cache_key(p, a, kw)})
                                  ELSE store
                      /\ Ended(target, IF ok THEN Returns(None) ELSE StoreError, TRUE)
    /\ UNCHANGED <<REDIS_ENABLED, store_ops, wrapperVars, mpc, pattern, cursor>>
    /\ UNCHANGED nonCacheVars

\* lines 103-113
ClearStart ==
    /\ Invalidations < MaxInvalidations
    /\ mpc = "Idle"
    /\ \E pat \in Patterns :
         IF ~REDIS_ENABLED
         THEN /\ mlog' = Append(Summary(mlog), Scan(pat, Returns(None), {}))
              /\ UNCHANGED <<redis_client, mpc, pattern, cursor>>
         ELSE /\ redis_client' = GetRedisConnection
              /\ pattern' = pat
              /\ cursor' = 0
              /\ mpc' = "Scanning"
              /\ mlog' = Append(Summary(mlog),
                                Scan(pat, None, {k \in DOMAIN store : Matches(pat, k)}))
    /\ UNCHANGED <<REDIS_ENABLED, store, store_ops, wrapperVars>>
    /\ UNCHANGED nonCacheVars

\* The loop left after its first turn
NextCursorOnce(cur, hi) == 0

\* The cursor after the batch that ends at slot hi
NextCursor(cur, hi) == IF hi >= Len(KeySlots) THEN 0 ELSE cur + 1

\* lines 114-119: one turn of the loop: a SCAN step, and a DELETE of the keys
\* it returned
ClearScan ==
    /\ mpc = "Scanning"
    /\ LET lo == cursor * ScanCount + 1
           hi == Min(lo + ScanCount - 1, Len(KeySlots))
           next == NextCursor(cursor, hi)
           batch == {k \in {KeySlots[i] : i \in lo..hi} : Matches(pattern, k)}
           keys == batch \cap DOMAIN store
           running == CHOOSE i \in DOMAIN mlog : mlog[i].outcome = None
           Log(o, deleted) ==
               mlog' = [mlog EXCEPT ![running] =
                           [@ EXCEPT !.outcome = o, !.sent = TRUE,
                                     !.deleted = @ \cup deleted,
                                     !.missed = @ \cup (batch \ keys)]]
           Return(o, deleted) ==
               /\ Log(o, deleted)
               /\ mpc' = "Idle"
               /\ pattern' = ""
               /\ cursor' = 0
           Go(deleted) ==
               IF next = 0 THEN Return(Returns(None), deleted)
               ELSE /\ Log(None, deleted)
                    /\ cursor' = next
                    /\ UNCHANGED <<mpc, pattern>>
       IN \E ok \in BOOLEAN : \E ok2 \in BOOLEAN :
            IF ~ok THEN Return(StoreError, {}) /\ UNCHANGED store
            ELSE IF keys = {} THEN Go({}) /\ UNCHANGED store
            ELSE IF ok2 THEN store' = Delete(store, keys) /\ Go(keys)
            ELSE Return(StoreError, {}) /\ UNCHANGED store
    /\ UNCHANGED <<REDIS_ENABLED, redis_client, store_ops, wrapperVars>>
    /\ UNCHANGED nonCacheVars

CacheNext ==
    \/ CacheCall
    \/ WrapperDisabled
    \/ WrapperKey
    \/ WrapperLookup
    \/ WrapperCompute
    \/ WrapperResume
    \/ WrapperStore
    \/ StoreExpire
    \/ StoreForeign
    \/ InvalidateCache
    \/ ClearStart
    \/ ClearScan

\* A process started with the cache on or off; the server holds no entry
CacheInit ==
    /\ REDIS_ENABLED \in BOOLEAN
    /\ redis_client = None
    /\ store = <<>>
    /\ store_ops = {}
    /\ call = None
    /\ wpc = "Idle"
    /\ invocations = 0
    /\ cache_key = None
    /\ cached_result = None
    /\ result = None
    /\ woutcome = None
    /\ prev = None
    /\ ncalls = 0
    /\ mlog = <<>>
    /\ mpc = "Idle"
    /\ pattern = ""
    /\ cursor = 0
    /\ NonCacheIdle

CacheSpec == CacheInit /\ [][CacheNext]_vars

\* clear_cache_by_pattern is a plain function: once called, its loop runs on
CacheFairSpec == CacheSpec /\ WF_vars(ClearScan)

(***************************************************************************)
(* Claims about the result cache.                                          *)
(***************************************************************************)
\* The same prefix and arguments, the keyword arguments in any order
SameArguments(a, b) ==
    /\ a.prefix = b.prefix
    /\ a.args = b.args
    /\ {a.kwargs[i] : i \in DOMAIN a.kwargs} = {b.kwargs[i] : i \in DOMAIN b.kwargs}

GetSucceeded(ops, key) == [op |-> "get", key |-> key, ok |-> TRUE] \in ops

\* C12 (cache determinism): a call made after a call with the same prefix and
\* arguments that stored its result derives the same key, whatever the order
\* in which the keyword arguments are written; and when its lookup reaches the
\* store while the entry the first call stored is still there, it returns the
\* stored result without invoking the wrapped function.
C12_CacheDeterminism ==
    [][(prev # None /\ SameArguments(prev, call)) =>
          /\ cache_key' # None => cache_key' = prev.cache_key
          /\ (/\ wpc = "KeyMade"
              /\ wpc' # "KeyMade"
              /\ GetSucceeded(store_ops', cache_key)
              /\ Get(store, prev.cache_key) = Dumps(prev.result)) =>
                 /\ wpc' = "Returned"
                 /\ woutcome' = Returns(Loads(Dumps(prev.result)))
                 /\ invocations' = 0]_vars

\* A second call that writes the keyword arguments in the other order and is
\* served the tuple the first call stored, as a list
C12_Witness ==
    /\ prev # None
    /\ SameArguments(prev, call)
    /\ prev.kwargs # call.kwargs
    /\ prev.result = [tuple |-> <<"a">>]
    /\ wpc = "Returned"
    /\ invocations = 0
    /\ woutcome = Returns([list |-> <<"a">>])

WrapperEnded == wpc \in {"Returned", "Raised"}

\* C13 (cache transparency): with REDIS_ENABLED false a wrapped call ends as
\* the wrapped function ends (the same value returned, the same error
\* raised), having invoked it exactly once and sent the store no command; no
\* connection is made; and invalidate_cache and clear_cache_by_pattern return
\* None without sending the store a command.
C13_CacheTransparency ==
    ~REDIS_ENABLED =>
        /\ store_ops = {}
        /\ redis_client = None
        /\ WrapperEnded => woutcome = call.func /\ invocations = 1
        /\ mpc = "Idle"
        /\ \A i \in DOMAIN mlog : mlog[i].outcome = Returns(None) /\ ~mlog[i].sent

\* With the cache off and an entry in the store, a wrapped call raised the
\* wrapped function's error after one invocation, and an invalidation returned
C13_Witness ==
    /\ ~REDIS_ENABLED
    /\ DOMAIN store # {}
    /\ wpc = "Raised"
    /\ woutcome = Raises("ValueError")
    /\ invocations = 1
    /\ Len(mlog) = 1
    /\ mlog[1].outcome = Returns(None)

\* C14 (cache failures never propagate): with the cache on, a wrapped call
\* during which a store command failed ends as the wrapped function ends,
\* after one invocation: no failure of the store reaches the caller.
C14_StoreFailuresAbsorbed ==
    (REDIS_ENABLED /\ WrapperEnded /\ \E c \in store_ops : ~c.ok) =>
        /\ woutcome = call.func
        /\ invocations = 1

\* The lookup reached the store and found no entry, or one json.loads rejects
LookupMissed ==
    /\ GetSucceeded(store_ops, cache_key)
    /\ cached_result = None \/ ~Loadable(cached_result)

SetexSent(ok) ==
    [op |-> "setex", key |-> cache_key, ttl |-> CACHE_TTL, value |-> Dumps(result),
     ok |-> ok] \in store_ops

\* C15 as stated: after a miss or a corrupt entry the call raises no error,
\* invokes the wrapped function once, returns its result and has stored it
\* under the key with the configured time-to-live.
C15_AsStated ==
    (REDIS_ENABLED /\ WrapperEnded /\ LookupMissed) =>
        /\ wpc = "Returned"
        /\ invocations = 1
        /\ woutcome = call.func
        /\ SetexSent(TRUE)

\* C15 (cache miss and corrupt entry): after a miss or a corrupt entry the
\* call invokes the wrapped function exactly once and ends as it ends; when
\* the function raises nothing is written; when it returns, its result is
\* written under the key with the configured time-to-live if json can
\* serialize it, and not at all if it cannot; a write the store refuses leaves
\* the call returning the result.
C15_MissRecomputes ==
    (REDIS_ENABLED /\ WrapperEnded /\ LookupMissed) =>
        /\ invocations = 1
        /\ woutcome = call.func
        /\ \A c \in store_ops : c.op = "setex" =>
              c.key = cache_key /\ c.ttl = CACHE_TTL /\ c.value = Dumps(result)
        /\ IF wpc = "Raised"
           THEN ~(\E c \in store_ops : c.op = "setex")
           ELSE /\ result = call.func.returned
                /\ Serializable(result) <=> (SetexSent(TRUE) \/ SetexSent(FALSE))

\* A corrupt entry was found, the function invoked once and its result stored
C15_Witness ==
    /\ REDIS_ENABLED
    /\ wpc = "Returned"
    /\ cached_result = Garbage
    /\ invocations = 1
    /\ woutcome = call.func
    /\ SetexSent(TRUE)
    /\ Get(store, cache_key) = Dumps(result)

(***************************************************************************)
(* The generation gateway: app/services/openai_service.py, called by       *)
(* create_summary and (through QuizGenerator) by create_quiz.  Time is in  *)
(* whole seconds.  A completion text is a sequence of tokens: words of     *)
(* prose, the brackets of a JSON array and the quiz items between them.    *)
(***************************************************************************)
TIMEOUT_SECONDS == 30

\* line 21: stop_after_attempt(5), wait_random_exponential(min=1, max=60)
StopAfterAttempt == 5
WaitMin == 1
WaitMax == 60

Max(a, b) == IF a >= b THEN a ELSE b

\* tenacity never stopping
StopNever(attempt_number) == FALSE

\* tenacity: stop_after_attempt
Stop(attempt_number) == attempt_number >= StopAfterAttempt

\* tenacity: wait_exponential with multiplier 1 and base 2, the top of the
\* window after the attempt of that number
WaitExponential(attempt_number) ==
    Max(Max(0, WaitMin), Min(2 ^ (attempt_number - 1), WaitMax))

\* tenacity: wait_random_exponential, the waits it can draw
WaitRandomExponential(attempt_number) == WaitMin..WaitExponential(attempt_number)

GatewayOps == {"generate_completion", "generate_summary", "generate_quiz"}

QuizItems == {"q1", "q2"}
Completions ==
    {<<"[", "q1", "q2", "]">>,
     <<"Aqui", "[", "q1", "]", "Suerte">>,
     <<"[", "]">>,
     <<"No", "puedo">>}

\* What one attempt against the backend can do: answer or fail, within the
\* time budget or after it
AttemptResults ==
    {[ok |-> TRUE, duration |-> d, text |-> t] : d \in {2, 45}, t \in Completions}
        \cup {[ok |-> FALSE, duration |-> d, text |-> <<>>] : d \in {2, 45}}

\* lines 1-12: the names the module imports
ImportedNames ==
    {"json", "Any", "Dict", "List", "Optional", "Union", "openai", "retry",
     "stop_after_attempt", "wait_random_exponential", "OPENAI_API_KEY", "GPT_MODEL",
     "MAX_TOKENS", "TEMPERATURE"}

\* re.search(r'\[.*\]', response, re.DOTALL): from the first "[" to the last
\* "]" after it, None when there is none
RegexSearch(response) ==
    LET opens == {i \in DOMAIN response : response[i] = "["}
        first == CHOOSE i \in opens : \A j \in opens : i <= j
        closes == {i \in DOMAIN response : response[i] = "]" /\ i > first}
    IN IF opens = {} \/ closes = {} THEN None
       ELSE SubSeq(response, first, SetMax(closes))

\* json.loads accepts the text: an array of items
IsJsonArray(t) ==
    /\ Len(t) >= 2
    /\ t[1] = "["
    /\ t[Len(t)] = "]"
    /\ \A i \in 2..(Len(t) - 1) : t[i] \in QuizItems

ParseError(cause) ==
    [kind |-> "Exception", detail |-> <<"Error al parsear el cuestionario generado", cause>>]

\* lines 117-126
ParseQuiz(response) ==
    IF "re" \notin ImportedNames THEN Raises(ParseError("NameError"))
    ELSE LET json_match == RegexSearch(response)
             found == IF json_match # None THEN json_match ELSE response
         IN IF IsJsonArray(found)
            THEN Returns(SubSeq(found, 2, Len(found) - 1))
            ELSE Raises(ParseError("JSONDecodeError"))

GatewayEnd(o) ==
    /\ goutcome' = o
    /\ gpc' = IF "returned" \in DOMAIN o THEN "Returned" ELSE "Raised"

\* lines 41-53 under the retry decorator: one attempt; an answer ends the
\* call, a failure is retried unless the attempts are used up
GatewayAttempt ==
    /\ gpc = "Attempting"
    /\ \E r \in AttemptResults :
         /\ attempts' = Append(attempts, r)
         /\ IF r.ok
            THEN IF gop = "generate_quiz"
                 THEN gpc' = "Completed" /\ UNCHANGED goutcome
                 ELSE GatewayEnd(Returns(r.text))
            ELSE IF Stop(Len(attempts'))
                 THEN GatewayEnd(Raises(Unhandled("tenacity.RetryError")))
                 ELSE gpc' = "Waiting" /\ UNCHANGED goutcome
    /\ UNCHANGED <<gop, waits, http>>
    /\ UNCHANGED nonGatewayVars

\* line 21: the wait before the next attempt
GatewayWait ==
    /\ gpc = "Waiting"
    /\ \E w \in WaitRandomExponential(Len(attempts)) : waits' = Append(waits, w)
    /\ gpc' = "Attempting"
    /\ UNCHANGED <<gop, attempts, goutcome, http>>
    /\ UNCHANGED nonGatewayVars

\* lines 117-126: generate_quiz parses the completion
QuizParse ==
    /\ gpc = "Completed"
    /\ GatewayEnd(ParseQuiz(attempts[Len(attempts)].text))
    /\ UNCHANGED <<gop, attempts, waits, http>>
    /\ UNCHANGED nonGatewayVars

\* summary.py lines 70-97, quiz.py lines 62-83: the endpoint answers 201, or
\* the status of an HTTPException, or 500 for any other exception
EndpointRespond ==
    /\ gop \in {"generate_summary", "generate_quiz"}
    /\ gpc \in {"Returned", "Raised"}
    /\ http = 0
    /\ http' = IF gpc = "Returned" THEN 201
               ELSE IF goutcome.raised.kind = "HTTPException"
               THEN goutcome.raised.status_code
               ELSE 500
    /\ UNCHANGED <<gop, gpc, attempts, waits, goutcome>>
    /\ UNCHANGED nonGatewayVars

GatewayNext == GatewayAttempt \/ GatewayWait \/ QuizParse \/ EndpointRespond

\* A call of one of the three methods
GatewayInit ==
    /\ gop \in GatewayOps
    /\ gpc = "Attempting"
    /\ attempts = <<>>
    /\ waits = <<>>
    /\ goutcome = None
    /\ http = 0
    /\ ChunkIdle /\ GuardIdle /\ IngestIdle /\ CacheIdle /\ RequestIdle /\ RegistryIdle

GatewaySpec == GatewayInit /\ [][GatewayNext]_vars

(***************************************************************************)
(* Claims about the gateway.                                               *)
(***************************************************************************)
RECURSIVE Sum(_)
Sum(s) == IF s = <<>> THEN 0 ELSE Head(s) + Sum(Tail(s))

\* Seconds from the call to its end
Elapsed == Sum([i \in DOMAIN attempts |-> attempts[i].duration]) + Sum(waits)

GatewayEnded == gpc \in {"Returned", "Raised"}
GatewayTimeoutKind == ErrorKind(HTTPException(504, <<>>))

\* C16 (gateway timeout): a gateway call never runs past TIMEOUT_SECONDS
\* without being cut off: one that ended later than that raised the 504
\* gateway-timeout error, and the endpoint answered 504, not 500.
C16_GatewayTimeout ==
    (GatewayEnded /\ Elapsed > TIMEOUT_SECONDS) =>
        /\ gpc = "Raised"
        /\ ErrorKind(goutcome.raised) = GatewayTimeoutKind
        /\ http \in {0, 504}

\* C17 (gateway retry): a call makes at most five attempts; an attempt that
\* answers is the last one and its answer is the completion; every wait
\* between attempts lasts between 1 and 60 seconds; and after a fifth failed
\* attempt the call makes no other and raises.
C17_GatewayRetry ==
    /\ Len(attempts) <= 5
    /\ \A i \in DOMAIN attempts : attempts[i].ok => i = Len(attempts)
    /\ \A i \in DOMAIN waits : 1 <= waits[i] /\ waits[i] <= 60
    /\ Len(waits) = IF gpc = "Attempting" THEN Len(attempts) ELSE Max(0, Len(attempts) - 1)
    /\ (attempts # <<>> /\ attempts[Len(attempts)].ok) =>
          /\ gpc \in {"Completed", "Returned", "Raised"}
          /\ gop # "generate_quiz" => goutcome = Returns(attempts[Len(attempts)].text)
    /\ (Len(attempts) = 5 /\ ~attempts[5].ok) =>
          /\ gpc = "Raised"
          /\ goutcome = Raises(Unhandled("tenacity.RetryError"))
    /\ (gpc = "Raised" /\ gop # "generate_quiz") => Len(attempts) = 5

\* Five failed attempts with the longest waits between them
C17_Witness ==
    /\ gop = "generate_completion"
    /\ gpc = "Raised"
    /\ Len(attempts) = 5
    /\ waits = <<1, 2, 4, 8>>
    /\ goutcome = Raises(Unhandled("tenacity.RetryError"))

\* The text holds a JSON array of quiz items, alone or amid prose
HoldsJsonArray(t) == \E i, j \in DOMAIN t : i < j /\ IsJsonArray(SubSeq(t, i, j))
ItemsOf(t) == SelectSeq(t, LAMBDA x : x \in QuizItems)

\* C18 (quiz output parsing): generate_quiz returns the items of the JSON
\* array the completion holds, alone or amid prose, and raises when the
\* completion holds no array: it returns no empty result for such a text.
C18_QuizParsing ==
    (gop = "generate_quiz" /\ GatewayEnded /\ attempts[Len(attempts)].ok) =>
        LET completion == attempts[Len(attempts)].text
        IN /\ (HoldsJsonArray(completion) /\ ItemsOf(completion) # <<>>) =>
                 goutcome = Returns(ItemsOf(completion))
           /\ ~HoldsJsonArray(completion) =>
                 gpc = "Raised" /\ goutcome # Returns(<<>>)

(***************************************************************************)
(* Generation requests: the DocumentRequest model of app/shemas/document.py *)
(* as pydantic validates it (field by field, in the order declared, a      *)
(* validator seeing in values the fields validated before its own), and    *)
(* the choice of source in create_quiz and create_summary.                 *)
(***************************************************************************)
Absent == [absent |-> TRUE]

\* Python's truth of a field value
IsTrue(v) == v \notin {None, [str |-> ""]}

Has(vals, name) == name \in DOMAIN vals

\* document.py line 77 / the endpoints' request.document_id
DocumentIds == {Absent, [str |-> ""], [str |-> "doc-1"], [str |-> "doc-2"]}

\* document.py line 78: a DocumentContent
Contents19 ==
    {Absent, [content |-> "La fotosintesis ..."], [content |-> "La mitosis ..."]}

\* the endpoints' request.text
Texts19 ==
    {Absent, [str |-> ""], [str |-> "La fotosintesis ..."], [str |-> "La mitosis ..."]}

GenerationRequests ==
    {[model |-> "DocumentRequest", document_id |-> d, raw |-> c] :
        d \in DocumentIds, c \in Contents19}
      \cup {[model |-> e, document_id |-> d, raw |-> t] :
              e \in {"create_quiz", "create_summary"}, d \in DocumentIds, t \in Texts19}

\* The fields of DocumentRequest in the order declared, and where the payload
\* holds each
FieldOrder == <<"document_id", "content">>
Supplied(p, name) == IF name = "document_id" THEN p.document_id ELSE p.raw

\* document.py lines 80-87
validate_document_source(v, vals) ==
    IF /\ Has(vals, "document_id") /\ IsTrue(vals["document_id"])
       /\ Has(vals, "content") /\ IsTrue(vals["content"])
    THEN Raises("Proporcione solo document_id o content, no ambos")
    ELSE IF /\ ~Has(vals, "document_id") \/ ~IsTrue(vals["document_id"])
            /\ ~Has(vals, "content") \/ ~IsTrue(vals["content"])
    THEN Raises("Debe proporcionar document_id o content")
    ELSE Returns(v)

\* The methods DocumentProcessor defines (document_processor.py lines 21-253)
DocumentProcessorMethods ==
    {"process_upload", "_get_document_type", "_create_basic_metadata", "_process_pdf",
     "text_to_document"}

\* The fields pydantic has dealt with: each is in values or has an error
Validated == Cardinality(DOMAIN values) + Cardinality({e.loc : e \in errors})

\* await doc_processor.<name>(...)
CallMethod(name) ==
    IF name \in DocumentProcessorMethods THEN Returns([called |-> name])
    ELSE Raises(Unhandled("AttributeError"))

\* pydantic validates the next field: a field not supplied takes its default
\* None and its validator is not run; a validator's ValueError is collected
\* and the field left out of values
ValidateField ==
    /\ payload # None
    /\ payload.model = "DocumentRequest"
    /\ rpc = "Validating"
    /\ Validated < Len(FieldOrder)
    /\ LET name == FieldOrder[Validated + 1]
           v == Supplied(payload, name)
           r == validate_document_source(v, values)
       IN IF v = Absent THEN values' = (name :> None) @@ values /\ UNCHANGED errors
          ELSE IF "raised" \in DOMAIN r
          THEN errors' = errors \cup {[loc |-> name, msg |-> r.raised]} /\ UNCHANGED values
          ELSE values' = (name :> v) @@ values /\ UNCHANGED errors
    /\ UNCHANGED <<payload, rpc, routcome>>
    /\ UNCHANGED nonRequestVars

\* The model is built, or pydantic raises ValidationError with the errors
ValidateEnd ==
    /\ payload # None
    /\ payload.model = "DocumentRequest"
    /\ rpc = "Validating"
    /\ Validated = Len(FieldOrder)
    /\ routcome' = IF errors = {} THEN Returns([accepted |-> "DocumentRequest"])
                   ELSE Raises([kind |-> "ValidationError", errors |-> errors])
    /\ rpc' = "Done"
    /\ UNCHANGED <<payload, values, errors>>
    /\ UNCHANGED nonRequestVars

\* quiz.py lines 41-60, summary.py lines 45-64: the source of the text
EndpointSource ==
    /\ payload # None
    /\ payload.model \in {"create_quiz", "create_summary"}
    /\ rpc = "Validating"
    /\ routcome' =
         IF IsTrue(payload.document_id) /\ payload.document_id # Absent
         THEN IF "raised" \in DOMAIN CallMethod("get_document")
              THEN Raises(HTTPException(500, <<"Error al generar", "AttributeError">>))
              ELSE Returns([accepted |-> "document"])
         ELSE IF IsTrue(payload.raw) /\ payload.raw # Absent
              THEN Returns([accepted |-> "text"])
              ELSE Raises(HTTPException(400, <<"Se debe proporcionar texto o document_id">>))
    /\ rpc' = "Done"
    /\ UNCHANGED <<payload, values, errors>>
    /\ UNCHANGED nonRequestVars

RequestNext == ValidateField \/ ValidateEnd \/ EndpointSource

RequestInit ==
    /\ payload \in GenerationRequests
    /\ rpc = "Validating"
    /\ values = <<>>
    /\ errors = {}
    /\ routcome = None
    /\ ChunkIdle /\ GuardIdle /\ IngestIdle /\ CacheIdle /\ GatewayIdle /\ RegistryIdle

RequestSpec == RequestInit /\ [][RequestNext]_vars

\* A value, not an empty one, is given for the field
Given(v) == v # Absent /\ IsTrue(v)

\* C19 (generation request source): a request is accepted exactly when one of
\* the document reference and the raw text is given and the other is not; a
\* request giving both or neither ends with a validation error.
C19_ExactlyOneSource ==
    rpc = "Done" =>
        /\ "returned" \in DOMAIN routcome <=> (Given(payload.document_id) # Given(payload.raw))
        /\ "raised" \in DOMAIN routcome =>
              \/ routcome.raised.kind = "ValidationError"
              \/ ErrorKind(routcome.raised) = ErrorKind(HTTPException(400, <<>>))

(***************************************************************************)
(* The document endpoints of app/api/endpoints/upload.py.  Each request is *)
(* given a DocumentProcessor of its own (app/dependencies.py, lines 54 to   *)
(* 57), whose only attribute is nlp_service: the process keeps no          *)
(* documents.                                                              *)
(***************************************************************************)
MaxRequests == 3

DocumentRequests ==
    {[op |-> "upload_document", target |-> f] : f \in {"apuntes.pdf", "apuntes.txt"}}
      \cup {[op |-> o, target |-> d] :
              o \in {"get_document", "delete_document"}, d \in {"doc-1", "doc-2"}}

\* upload.py lines 45-84 (document_type left at its default, PDF), 105-120
\* and 139-153: the status of the response
Respond(req) ==
    IF req.op = "upload_document"
    THEN IF req.target # "apuntes.pdf" THEN 400
         ELSE IF "raised" \in DOMAIN CallMethod("process_document") THEN 500 ELSE 201
    ELSE IF req.op = "get_document"
    THEN IF "raised" \in DOMAIN CallMethod("get_document") THEN 500 ELSE 200
    ELSE IF "raised" \in DOMAIN CallMethod("delete_document") THEN 500 ELSE 204

\* A request arrives while others are being served
Receive ==
    /\ Cardinality(inflight) + Len(responses) < MaxRequests
    /\ \E req \in DocumentRequests \ inflight : inflight' = inflight \cup {req}
    /\ UNCHANGED responses
    /\ UNCHANGED nonRegistryVars

\* The handler of one of them runs and answers
Handle ==
    /\ \E req \in inflight :
         /\ inflight' = inflight \ {req}
         /\ responses' = Append(responses, [request |-> req, status |-> Respond(req)])
    /\ UNCHANGED nonRegistryVars

RegistryNext == Receive \/ Handle

RegistryInit ==
    /\ inflight = {}
    /\ responses = <<>>
    /\ ChunkIdle /\ GuardIdle /\ IngestIdle /\ CacheIdle /\ GatewayIdle /\ RequestIdle

RegistrySpec == RegistryInit /\ [][RegistryNext]_vars

\* C20 (document registry under concurrency): every read of a document is
\* answered with the document (200) or with "not found" (404), and with "not
\* found" when a delete of that identifier was answered 204 before it.
C20_RegistryReads ==
    \A i \in DOMAIN responses :
        responses[i].request.op = "get_document" =>
            /\ responses[i].status \in {200, 404}
            /\ (\E j \in 1..(i - 1) :
                   /\ responses[j].request =
                        [op |-> "delete_document", target |-> responses[i].request.target]
                   /\ responses[j].status = 204) => responses[i].status = 404

(***************************************************************************)
(* Further claims about chunk_text.                                        *)
(***************************************************************************)
\* The cut the priority order gives for the window [cur, cand]: after the last
\* paragraph break in it, else after the last ". ", else after the last space,
\* else at cand
PriorityCut(t, cur, cand) ==
    LET paragraphs == Occurrences(t, <<NL, NL>>, cur, cand)
        sentences == Occurrences(t, <<".", " ">>, cur, cand)
        spaces == Occurrences(t, <<" ">>, cur, cand)
    IN IF paragraphs # {} THEN SetMax(paragraphs) + 2
       ELSE IF sentences # {} THEN SetMax(sentences) + 2
       ELSE IF spaces # {} THEN SetMax(spaces) + 1
       ELSE cand

\* C21 (break priority): in every iteration whose candidate end
\* min(current_pos + chunk_size, len(text)) lies before the end of the text, the
\* cut is placed after the last paragraph break of the window, else after the
\* last ". " of the window, else after its last space, and at the candidate
\* only when the window holds none of them.
C21_BreakPriority ==
    [][(cpc = "loop" /\ cpc' = "loop"
          /\ Min(current_pos + chunk_size, Len(text)) < Len(text))
       => current_pos' = PriorityCut(text, current_pos,
                                     Min(current_pos + chunk_size, Len(text)))]_vars

(***************************************************************************)
(* chunk_text with the chunk size the configuration gives: CHUNK_SIZE is   *)
(* int(os.getenv("CHUNK_SIZE", 3000)) and can be any integer.  A call that *)
(* does not return appends a chunk on every iteration; the model follows   *)
(* it for MaxIterations iterations.                                        *)
(***************************************************************************)
MaxIterations == 7

ConfiguredSizes == (0 - MaxChunkSize)..MaxChunkSize

ConfigIter ==
    /\ Len(chunks) < MaxIterations
    /\ ChunkIter

ConfigNext == ChunkEntry \/ ConfigIter \/ ChunkReturn

ConfigInit ==
    /\ text \in TextsUpTo(MaxTextLen)
    /\ chunk_size \in ConfiguredSizes
    /\ cpc = "start"
    /\ current_pos = 0
    /\ chunks = <<>>
    /\ NonChunkIdle

ConfigSpec == ConfigInit /\ [][ConfigNext]_vars

\* An iteration that can be run is run
ConfigFairSpec == ConfigSpec /\ WF_vars(ConfigNext)

\* C22 (chunker with any configured size): for every non-empty text and every
\* integer chunk_size, zero and negative ones included, each iteration of the
\* loop strictly increases current_pos, and the call returns.
C22_ChunkerAlwaysTerminates ==
    /\ [][(text # <<>> /\ cpc = "loop" /\ cpc' = "loop")
            => current_pos' > current_pos]_vars
    /\ (text # <<>>) => <>(cpc = "done")

C25_UploadMetadata ==
    (entry = "process_upload" /\ metadata # None) =>
        /\ metadata.filename = request.filename
        /\ metadata.file_size = request.content.size
        /\ metadata.content_type = request.content_type

\* C24 (PDF image flag): the extraction of a valid PDF succeeds, and the
\* metadata's has_images is true when at least one page gave fewer than 100
\* characters of text and false when every page gave 100 or more.
C24_PdfImageFlag ==
    (/\ entry = "process_upload"
     /\ doc_type = "pdf"
     /\ request.content.kind = "pdf"
     /\ ipc # "TypeDetected") =>
        /\ metadata # None
        /\ metadata.has_images =
              (\E i \in 1..Len(request.content.pages) : request.content.pages[i].short)

\* nlp_service.py line 45: process_text takes its windowed branch
Windowed(t) == t.len > MaxContentLength

\* The run went on after the guard: lines 81-100 and 215-240, where the text is
\* chunked and handed to extract_entities_and_keywords and detect_language
PastGuard == Ran("content_guard") /\ (ipc # "Raised" \/ Ran("id_generation"))

\* C29 (annotation input bound): in every ingestion run the text that goes on
\* to the steps after ContentGuard, the annotation among them, is the text the
\* guard found safe; it has between 10 and 100,000 characters, so process_text
\* does not take its windowed branch on it.
C29_AnnotationInputBound ==
    (PastGuard \/ Ran("annotation")) =>
        /\ verdict = content_security_check(extracted_text, order)
        /\ verdict.is_safe
        /\ extracted_text.len \in MinContentLength..MaxContentLength
        /\ ~Windowed(extracted_text)

\* A text of exactly 100,000 characters that passed the guard and went on.
C29_Witness ==
    /\ PastGuard
    /\ Ran("id_generation")
    /\ extracted_text.len = MaxContentLength
    /\ verdict.is_safe

(***************************************************************************)
(* Claims about invalidation.                                              *)
(***************************************************************************)
KeyOf(c) == generate_cache_key(c.prefix, c.args, c.kwargs)

\* The invalidation call that the step ends, when it ends one of the given
\* function that returned after sending the store its commands
Completes(op, log, log2) ==
    /\ Len(log2) > 0
    /\ log2 # log
    /\ log2[Len(log2)].op = op
    /\ log2[Len(log2)].outcome = Returns(None)
    /\ log2[Len(log2)].sent
    /\ "target" \in DOMAIN log2[Len(log2)]

\* The frame of a step that ends invalidate_cache(target): the entry under the
\* key a wrapped call with those arguments uses is gone, the rest untouched
DeletesExactly(target) ==
    /\ \A c \in WrapperCalls : SameArguments(c, target) => KeyOf(c) = KeyOf(target)
    /\ KeyOf(target) \notin DOMAIN store'
    /\ DOMAIN store' = DOMAIN store \ {KeyOf(target)}
    /\ \A k \in DOMAIN store' : store'[k] = store[k]

\* The wrapped call begun by the step is the first since invalidate_cache
\* returned, and has the arguments that were invalidated
FirstCallAfter ==
    /\ ncalls' = ncalls + 1
    /\ Completes("invalidate_cache", <<>>, mlog)
    /\ SameArguments(call', mlog[Len(mlog)].target)

\* C26 (explicit invalidation): invalidate_cache(prefix, args, kwargs) deletes
\* the entry under the key a wrapped call with that prefix and those arguments
\* uses and leaves every other entry as it was; and the next wrapped call with
\* those arguments finds no result to be served and recomputes.
C26_ExplicitInvalidation ==
    [][/\ Completes("invalidate_cache", mlog, mlog') =>
            DeletesExactly(mlog'[Len(mlog')].target)
       /\ FirstCallAfter =>
            LET v == Get(store, KeyOf(call'))
            IN v = None \/ ~Loadable(v)]_vars

\* C30 (invalidation and a computation in flight): when invalidate_cache
\* returned while a wrapped call with the same key was awaiting its function,
\* that call does not afterwards store its result under the key.
C30_NoResurrection ==
    (/\ mlog # <<>>
     /\ Completes("invalidate_cache", <<>>, mlog)
     /\ mlog[Len(mlog)].inflight = ncalls
     /\ KeyOf(mlog[Len(mlog)].target) = cache_key) =>
        ~(\E c \in store_ops : c.op = "setex" /\ c.ok)

\* The step is a turn of the loop of clear_cache_by_pattern
ScanTurn == mpc = "Scanning" /\ (cursor' # cursor \/ mpc' = "Idle")

\* C27 (pattern invalidation): clear_cache_by_pattern follows the cursor each
\* SCAN returns, which advances until it is 0, and then ends; it deletes no
\* entry whose key does not match the pattern; and when it returns, every key
\* that matched the pattern when the call began has been deleted by it, or was
\* already gone when its batch was scanned.
C27_PatternInvalidation ==
    /\ [](\A i \in DOMAIN mlog :
            "matching" \in DOMAIN mlog[i] =>
               /\ \A k \in mlog[i].deleted : Matches(mlog[i].target, k)
               /\ (mlog[i].outcome = Returns(None) /\ mlog[i].sent) =>
                     mlog[i].matching \subseteq (mlog[i].deleted \cup mlog[i].missed))
    /\ [][ScanTurn =>
            /\ mpc' = "Scanning" => cursor' > cursor
            /\ \A k \in DOMAIN store :
                  ~Matches(pattern, k) => (k \in DOMAIN store' /\ store'[k] = store[k])]_vars
    /\ (mpc = "Scanning") ~> (mpc = "Idle")

\* A call with the digest of one entry as pattern returned after two batches,
\* having deleted that entry and left the other
C27_Witness ==
    /\ mlog # <<>>
    /\ Completes("clear_cache_by_pattern", <<>>, mlog)
    /\ mlog[Len(mlog)].target = [literal |-> KeySlots[1]]
    /\ mlog[Len(mlog)].matching = {KeySlots[1]}
    /\ mlog[Len(mlog)].deleted = {KeySlots[1]}
    /\ DOMAIN store = {KeySlots[2]}

\* C28 (failures are not cached): when the wrapped function raises in a
\* wrapped call, the call raises that exception unchanged and sends the store
\* no write, and the key then holds no result for a later call with the same
\* arguments to be served, so that call invokes the function again.
C28_FailuresNotCached ==
    (/\ REDIS_ENABLED
     /\ WrapperEnded
     /\ invocations = 1
     /\ "raised" \in DOMAIN call.func) =>
        /\ wpc = "Raised"
        /\ woutcome = call.func
        /\ ~(\E c \in store_ops : c.op = "setex")
        /\ LET v == Get(store, KeyOf(call))
           IN v = None \/ ~Loadable(v)

\* A second wrapped call whose lookup was answered with a miss and whose
\* function raised: the error reached the caller and the key holds nothing
C28_Witness ==
    /\ REDIS_ENABLED
    /\ ncalls = 2
    /\ wpc = "Raised"
    /\ invocations = 1
    /\ woutcome = Raises("ValueError")
    /\ GetSucceeded(store_ops, cache_key)
    /\ cache_key \notin DOMAIN store

====
